---- MODULE Spec2Model ----
(***************************************************************************)
(* Model of scripts/load_question_md.py: a one-shot loader that splits a   *)
(* markdown question file into sections, renders them, validates the      *)
(* result and upserts one row into content.questions.                     *)
(*                                                                         *)
(* A Python str is a sequence of one-character strings; "\n" is the line   *)
(* separator.  A list is a sequence, a dict is a function.                 *)
(***************************************************************************)
EXTENDS Integers, Sequences, FiniteSets, TLC

VARIABLES
    \* parse_sections, run line by line
    secLines,          \* the lines of the file being split
    secIdx,            \* number of lines consumed by the loop
    sections,          \* dict: heading title -> section text
    current_heading,   \* title of the open heading, or None
    buffer,            \* lines gathered under the open heading
    secPc              \* "loop" | "done" | "idle"

secVars == <<secLines, secIdx, sections, current_heading, buffer, secPc>>

VARIABLES
    \* the markdown_to_* functions, called on a source
    mdLines,           \* the lines the source is made of
    source,            \* the argument
    mdFn,              \* "none" | "html" | "html_list" | "text_list"
    text,              \* source.strip()
    html,              \* the rendered HTML, stripped
    cleaned,           \* cleaned / cleaned_fragments
    raw_lines,         \* the trimmed non-blank lines of text
    result             \* the value returned

mdVars == <<mdLines, source, mdFn, text, html, cleaned, raw_lines, result>>

VARIABLES
    \* main, one invocation after another
    pc,                \* where the invocation is
    doc,               \* the lines of the file at md_path
    stem,              \* md_path.stem
    dsn,               \* args.dsn: "dsn" or "None"
    built,             \* what build_payload returned or raised
    conn,              \* the connection: "none" | "open" | "closed"
    statements,        \* statements executed on the connection
    pending,           \* the table as the open transaction sees it
    table,             \* content.questions, as committed
    now,               \* the database clock
    updatedAtDefault,  \* the column default of updated_at: "null" | "now"
    runs,              \* invocations started
    \* what the checks need to remember about the invocation
    tableAtStart,      \* the table when the invocation started
    opened,            \* connections opened by the invocation
    insertCalled       \* insert_question was called by the invocation

mainVars == <<pc, doc, stem, dsn, built, conn, statements, pending, table, now,
              updatedAtDefault, runs, tableAtStart, opened, insertCalled>>

vars == <<secVars, mdVars, mainVars>>

\* ------------------------------------------------------------------ bounds
\* Longest file, in lines, that the section splitter is run on.
MaxSecLines == 4
\* Longest markdown source, in lines, that the renderers are run on.
MaxMdLines == 3
\* Invocations of the program, one after the other.
MaxRuns == 2

\* ------------------------------------------------------------- characters
NL == "\n"
SP == " "

IsSpace(c) == c \in {SP, NL}

\* str.lstrip()
RECURSIVE LStrip(_)
LStrip(s) ==
    IF s = <<>> THEN <<>>
    ELSE IF IsSpace(Head(s)) THEN LStrip(Tail(s)) ELSE s

\* str.rstrip()
RECURSIVE RStrip(_)
RStrip(s) ==
    IF s = <<>> THEN <<>>
    ELSE IF IsSpace(s[Len(s)]) THEN RStrip(SubSeq(s, 1, Len(s) - 1)) ELSE s

\* str.strip()
Strip(s) == RStrip(LStrip(s))

\* Index of the first occurrence of c in s, 0 if there is none (str.find + 1).
Find(s, c) ==
    IF \E i \in 1..Len(s) : s[i] = c
    THEN CHOOSE i \in 1..Len(s) : s[i] = c /\ \A j \in 1..(i - 1) : s[j] # c
    ELSE 0

\* str.splitlines()
RECURSIVE SplitLines(_)
SplitLines(s) ==
    IF s = <<>> THEN <<>>
    ELSE LET i == Find(s, NL) IN
         IF i = 0 THEN <<s>>
         ELSE <<SubSeq(s, 1, i - 1)>> \o SplitLines(SubSeq(s, i + 1, Len(s)))

\* sep.join(parts)
RECURSIVE Join(_, _)
Join(sep, parts) ==
    IF parts = <<>> THEN <<>>
    ELSE IF Len(parts) = 1 THEN parts[1]
    ELSE parts[1] \o sep \o Join(sep, Tail(parts))

\* [f(x) for x in xs]
Map(Op(_), xs) == [i \in 1..Len(xs) |-> Op(xs[i])]

\* [x for x in xs if x]   (drops the empty strings)
RECURSIVE NonEmpty(_)
NonEmpty(xs) ==
    IF xs = <<>> THEN <<>>
    ELSE IF Head(xs) = <<>> THEN NonEmpty(Tail(xs))
    ELSE <<Head(xs)>> \o NonEmpty(Tail(xs))

\* All sequences over S of length at most n.
SeqUpTo(S, n) == UNION {[1..k -> S] : k \in 0..n}

\* ------------------------------------------------------------ parse_sections
\* None, as a value no heading title can equal (a title holds single characters).
None == <<"None">>

\* Number of leading "#" characters of s.
RECURSIVE Hashes(_)
Hashes(s) ==
    IF s = <<>> \/ Head(s) # "#" THEN 0 ELSE 1 + Hashes(Tail(s))

\* heading_pattern.match(raw_line.strip()): ^(#{1,6})\s+(.*)$
\* The stripped line has 1..6 leading "#", then whitespace, then the title.
HeadingMatches(rawLine) ==
    LET s == Strip(rawLine)
        n == Hashes(s)
    IN  /\ n >= 1
        /\ n <= 6
        /\ Len(s) > n
        /\ IsSpace(s[n + 1])

\* match.group(2).strip()
HeadingTitle(rawLine) ==
    LET s == Strip(rawLine)
        n == Hashes(s)
    IN  Strip(SubSeq(s, n + 1, Len(s)))

\* sections[current_heading] = "\n".join(buffer).strip()
Flush(secs, heading, buf) ==
    [t \in (DOMAIN secs) \cup {heading} |->
        IF t = heading THEN Strip(Join(<<NL>>, buf)) ELSE secs[t]]

\* As BufferAfterHeading, had buffer.clear() been forgotten.
BufferNeverCleared(cur, buf) == buf

\* The buffer after a heading line: flushed and cleared when a heading was
\* open, left as it is (empty) otherwise.
BufferAfterHeading(cur, buf) == IF cur # None THEN <<>> ELSE buf

\* One iteration of the loop over the lines of the file.
SectionStep(st, rawLine) ==
    IF HeadingMatches(rawLine)
    THEN [sections |-> IF st.current_heading # None
                       THEN Flush(st.sections, st.current_heading, st.buffer)
                       ELSE st.sections,
          buffer |-> BufferAfterHeading(st.current_heading, st.buffer),
          current_heading |-> HeadingTitle(rawLine)]
    ELSE [sections |-> st.sections,
          buffer |-> IF st.current_heading # None
                     THEN Append(st.buffer, rawLine) ELSE st.buffer,
          current_heading |-> st.current_heading]

\* The state before the loop: no section, no heading, empty buffer.
SectionStart == [sections |-> <<>>, buffer |-> <<>>, current_heading |-> None]

\* The flush after the loop and the returned dict.
SectionFinish(st) ==
    IF st.current_heading # None
    THEN Flush(st.sections, st.current_heading, st.buffer)
    ELSE st.sections

RECURSIVE SectionLoop(_, _)
SectionLoop(st, lines) ==
    IF lines = <<>> THEN st
    ELSE SectionLoop(SectionStep(st, Head(lines)), Tail(lines))

\* parse_sections(md_path), the file given by its lines.
ParseSections(lines) == SectionFinish(SectionLoop(SectionStart, lines))

\* ------------------------------------------------------ MARKDOWN_RENDERER
\* markdown-it's CommonMark rendering of the block structures the sources
\* below are built from: paragraphs (lines joined by soft breaks), bullet
\* lists (tight or loose, with lazy continuation lines) and link reference
\* definitions, which render to nothing and turn later [label] text into a
\* link.  Lines are indented by at most one blank; one definition per label.

IsBlank(line) == Strip(line) = <<>>

\* "- text": a bullet list item with content.
IsBullet(line) ==
    /\ Len(line) >= 3
    /\ line[1] = "-"
    /\ line[2] = SP
    /\ Strip(SubSeq(line, 3, Len(line))) # <<>>

BulletText(line) == SubSeq(line, 3, Len(line))

\* "[label]: destination": a link reference definition.
IsRefDef(line) ==
    LET s == Strip(line)
        k == Find(s, "]")
    IN  /\ Len(s) >= 5
        /\ s[1] = "["
        /\ k >= 3
        /\ k + 1 <= Len(s)
        /\ s[k + 1] = ":"
        /\ Strip(SubSeq(s, k + 2, Len(s))) # <<>>
        /\ Find(Strip(SubSeq(s, k + 2, Len(s))), SP) = 0

RefLabel(line) == LET s == Strip(line) IN SubSeq(s, 2, Find(s, "]") - 1)
RefDest(line) ==
    LET s == Strip(line) IN Strip(SubSeq(s, Find(s, "]") + 2, Len(s)))

\* A block: a paragraph (one entry in items: its lines) or a bullet list (one
\* entry per item: the lines of the item's paragraph).
Block(kind, loose, items) == [kind |-> kind, loose |-> loose, items |-> items]

ReplaceLast(xs, x) == [xs EXCEPT ![Len(xs)] = x]

\* The block parser on one line.  open: "none" | "p" | "li" | "gap" (a list
\* item followed by blank lines).
BlockStep(st, line) ==
    LET last == st.blocks[Len(st.blocks)] IN
    IF IsBlank(line)
    THEN [blocks |-> st.blocks,
          open |-> CASE st.open = "p" -> "none"
                     [] st.open = "li" -> "gap"
                     [] OTHER -> st.open]
    ELSE IF IsBullet(line)
    THEN [blocks |->
            IF st.open \in {"li", "gap"}
            THEN ReplaceLast(st.blocks,
                    Block("ul", last.loose \/ st.open = "gap",
                          Append(last.items, <<BulletText(line)>>)))
            ELSE Append(st.blocks, Block("ul", FALSE, <<<<BulletText(line)>>>>)),
          open |-> "li"]
    ELSE [blocks |->
            IF st.open \in {"p", "li"}
            THEN ReplaceLast(st.blocks,
                    Block(last.kind, last.loose,
                          ReplaceLast(last.items,
                              Append(last.items[Len(last.items)], line))))
            ELSE Append(st.blocks, Block("p", FALSE, <<<<line>>>>)),
          open |-> IF st.open = "li" THEN "li" ELSE "p"]

RECURSIVE BlockLoop(_, _)
BlockLoop(st, lines) ==
    IF lines = <<>> THEN st
    ELSE BlockLoop(BlockStep(st, Head(lines)), Tail(lines))

ParseBlocks(t) ==
    BlockLoop([blocks |-> <<>>, open |-> "none"], SplitLines(t)).blocks

\* The link reference definitions that open a paragraph, and what is left.
RECURSIVE LeadingDefs(_)
LeadingDefs(lines) ==
    IF lines # <<>> /\ IsRefDef(Head(lines))
    THEN <<Head(lines)>> \o LeadingDefs(Tail(lines))
    ELSE <<>>

AfterDefs(lines) == SubSeq(lines, Len(LeadingDefs(lines)) + 1, Len(lines))

\* The labels the document defines, each with its destination.
Definitions(blocks) ==
    {<<RefLabel(l), RefDest(l)>> :
        l \in UNION {UNION {{LeadingDefs(b.items[i])[j] :
                                j \in 1..Len(LeadingDefs(b.items[i]))} :
                            i \in 1..Len(b.items)} :
                     b \in {blocks[n] : n \in 1..Len(blocks)}}}

\* Nodes of the parsed HTML: a string, or a tag with children.
Str(s) ==
    [kind |-> "str", name |-> "", attr |-> <<>>, text |-> s, children |-> <<>>]
Tag(name, attr, children) ==
    [kind |-> "tag", name |-> name, attr |-> attr, text |-> <<>>,
     children |-> children]

\* The inline content of one paragraph line: its text, a defined [label]
\* replaced by a link.
InlineLine(line, defs) ==
    LET s == Strip(line)
        i == Find(s, "[")
        k == Find(s, "]")
    IN  IF /\ i > 0
           /\ k > i + 1
           /\ \E d \in defs : d[1] = SubSeq(s, i + 1, k - 1)
        THEN LET d == CHOOSE d \in defs : d[1] = SubSeq(s, i + 1, k - 1) IN
             <<Str(SubSeq(s, 1, i - 1)),
               Tag("a", d[2], <<Str(d[1])>>),
               Str(SubSeq(s, k + 1, Len(s)))>>
        ELSE <<Str(s)>>

\* Adjacent strings are one string; empty strings are no node.
RECURSIVE Merge(_)
Merge(nodes) ==
    IF nodes = <<>> THEN <<>>
    ELSE IF Head(nodes).kind = "str" /\ Head(nodes).text = <<>>
    THEN Merge(Tail(nodes))
    ELSE IF /\ Len(nodes) >= 2
            /\ Head(nodes).kind = "str"
            /\ nodes[2].kind = "str"
    THEN Merge(<<Str(Head(nodes).text \o nodes[2].text)>> \o Tail(Tail(nodes)))
    ELSE <<Head(nodes)>> \o Merge(Tail(nodes))

\* The lines of a paragraph, joined by soft breaks.
RECURSIVE InlineLines(_, _)
InlineLines(lines, defs) ==
    IF lines = <<>> THEN <<>>
    ELSE IF Len(lines) = 1 THEN InlineLine(lines[1], defs)
    ELSE InlineLine(lines[1], defs) \o <<Str(<<NL>>)>>
            \o InlineLines(Tail(lines), defs)

Inline(lines, defs) == Merge(InlineLines(AfterDefs(lines), defs))

\* <li>: the paragraph's content in a tight list, the paragraph in a loose one.
ListItem(lines, loose, defs) ==
    IF AfterDefs(lines) = <<>> THEN Tag("li", <<>>, <<>>)
    ELSE IF loose
    THEN Tag("li", <<>>,
             <<Str(<<NL>>), Tag("p", <<>>, Inline(lines, defs)), Str(<<NL>>)>>)
    ELSE Tag("li", <<>>, Inline(lines, defs))

RECURSIVE ListItems(_, _, _)
ListItems(items, loose, defs) ==
    IF items = <<>> THEN <<>>
    ELSE <<ListItem(Head(items), loose, defs), Str(<<NL>>)>>
            \o ListItems(Tail(items), loose, defs)

\* The nodes of the blocks, a line break after each.
RECURSIVE BlockNodes(_, _)
BlockNodes(blocks, defs) ==
    IF blocks = <<>> THEN <<>>
    ELSE LET b == Head(blocks) IN
         (IF b.kind = "ul"
          THEN <<Tag("ul", <<>>,
                     <<Str(<<NL>>)>> \o ListItems(b.items, b.loose, defs)),
                 Str(<<NL>>)>>
          ELSE IF AfterDefs(b.items[1]) = <<>> THEN <<>>
          ELSE <<Tag("p", <<>>, Inline(b.items[1], defs)), Str(<<NL>>)>>)
         \o BlockNodes(Tail(blocks), defs)

\* BeautifulSoup(MARKDOWN_RENDERER.render(text).strip(), "html.parser").contents:
\* the top-level nodes, without the line break that ends the rendering.
RenderTree(t) ==
    LET blocks == ParseBlocks(t)
        nodes == BlockNodes(blocks, Definitions(blocks))
    IN  SubSeq(nodes, 1, Len(nodes) - 1)

OpenTag(n) ==
    IF n.name = "a" THEN <<"<a href=\"">> \o n.attr \o <<"\">">>
    ELSE <<"<" \o n.name \o ">">>
CloseTag(n) == <<"</" \o n.name \o ">">>

\* str(node) over a sequence of nodes: the HTML text.
RECURSIVE Html(_)
Html(nodes) ==
    IF nodes = <<>> THEN <<>>
    ELSE LET n == Head(nodes) IN
         (IF n.kind = "str" THEN n.text
          ELSE OpenTag(n) \o Html(n.children) \o CloseTag(n))
         \o Html(Tail(nodes))

\* Every string under the nodes, in document order.
RECURSIVE Strings(_)
Strings(nodes) ==
    IF nodes = <<>> THEN <<>>
    ELSE LET n == Head(nodes) IN
         (IF n.kind = "str" THEN <<n.text>> ELSE Strings(n.children))
         \o Strings(Tail(nodes))

\* get_text(separator=" ", strip=True) over a sequence of nodes.
GetText(nodes) == Join(<<SP>>, NonEmpty(Map(Strip, Strings(nodes))))

\* node.find_all("li", recursive=False)
RECURSIVE DirectItems(_)
DirectItems(children) ==
    IF children = <<>> THEN <<>>
    ELSE (IF Head(children).kind = "tag" /\ Head(children).name = "li"
          THEN <<Head(children)>> ELSE <<>>) \o DirectItems(Tail(children))

\* ------------------------------------------------------- markdown_to_html
MarkdownToHtml(src) ==
    LET t == Strip(src) IN
    IF t # <<>> THEN Strip(Html(RenderTree(t))) ELSE <<>>

\* -------------------------------------------------- markdown_to_html_list
\* The loop over soup.contents: a string is kept trimmed when not blank, a
\* list gives one fragment per direct item, any other tag is one fragment.
RECURSIVE HtmlFragments(_)
HtmlFragments(nodes) ==
    IF nodes = <<>> THEN <<>>
    ELSE LET n == Head(nodes) IN
         (IF n.kind = "str"
          THEN (IF Strip(n.text) # <<>> THEN <<Strip(n.text)>> ELSE <<>>)
          ELSE IF n.name \in {"ul", "ol"}
          THEN [i \in 1..Len(DirectItems(n.children)) |->
                    Html(<<DirectItems(n.children)[i]>>)]
          ELSE <<Html(<<n>>)>>)
         \o HtmlFragments(Tail(nodes))

\* cleaned = [fragment.strip() for fragment in fragments if fragment.strip()]
CleanedHtml(t) == NonEmpty(Map(Strip, HtmlFragments(RenderTree(t))))

\* return cleaned or [html]
HtmlListResult(cl, h) == IF cl # <<>> THEN cl ELSE <<h>>

MarkdownToHtmlList(src) ==
    LET t == Strip(src) IN
    IF t = <<>> THEN <<>>
    ELSE HtmlListResult(CleanedHtml(t), Strip(Html(RenderTree(t))))

\* -------------------------------------------------- markdown_to_text_list
\* The loop over soup.contents, each fragment the plain text of its node.
RECURSIVE TextFragments(_)
TextFragments(nodes) ==
    IF nodes = <<>> THEN <<>>
    ELSE LET n == Head(nodes) IN
         (IF n.kind = "str"
          THEN (IF Strip(n.text) # <<>> THEN <<Strip(n.text)>> ELSE <<>>)
          ELSE IF n.name \in {"ul", "ol"}
          THEN NonEmpty([i \in 1..Len(DirectItems(n.children)) |->
                            GetText(<<DirectItems(n.children)[i]>>)])
          ELSE NonEmpty(<<GetText(<<n>>)>>))
         \o TextFragments(Tail(nodes))

\* cleaned_fragments = [fragment for fragment in fragments if fragment]
CleanedText(t) == NonEmpty(TextFragments(RenderTree(t)))

\* raw_lines = [line.strip() for line in text.splitlines() if line.strip()]
RawLines(t) == NonEmpty(Map(Strip, SplitLines(t)))

\* As TextListResult, had the single-fragment test been left out.
TextListNoReconcile(cl, raw, fallback) ==
    IF cl # <<>> THEN cl
    ELSE IF Len(raw) > 1 THEN raw
    ELSE IF fallback # <<>> THEN <<fallback>> ELSE <<>>

\* As TextListResult, had any raw line been enough when nothing was rendered.
TextListRawWhenAny(cl, raw, fallback) ==
    IF cl # <<>>
    THEN (IF Len(cl) = 1 /\ Len(raw) > 1 THEN raw ELSE cl)
    ELSE IF Len(raw) >= 1 THEN raw
    ELSE IF fallback # <<>> THEN <<fallback>> ELSE <<>>

\* The choice between the rendered fragments, the raw lines and the fallback.
TextListResult(cl, raw, fallback) ==
    IF cl # <<>>
    THEN (IF Len(cl) = 1 /\ Len(raw) > 1 THEN raw ELSE cl)
    ELSE IF Len(raw) > 1 THEN raw
    ELSE IF fallback # <<>> THEN <<fallback>> ELSE <<>>

MarkdownToTextList(src) ==
    LET t == Strip(src) IN
    IF t = <<>> THEN <<>>
    ELSE TextListResult(CleanedText(t), RawLines(t), GetText(RenderTree(t)))

\* --------------------------------------------- the renderers, call by call
\* Lines a source is drawn from: text, text with blanks around it, a bullet
\* item, a link reference definition, a blank line.
RefLine == <<"[", "r", "]", ":", SP, "/", "u">>

MdLineSet ==
    { <<"A">>, <<"B">>, <<SP, "B", SP>>, <<"-", SP, "A">>, RefLine, <<>> }

MdInit ==
    /\ mdLines \in SeqUpTo(MdLineSet, MaxMdLines)
    /\ source = Join(<<NL>>, mdLines)
    /\ mdFn = "none"
    /\ text = <<>>
    /\ html = <<>>
    /\ cleaned = <<>>
    /\ raw_lines = <<>>
    /\ result = <<>>

\* text = source.strip(); html = MARKDOWN_RENDERER.render(text).strip()
MdLocals ==
    /\ text' = Strip(source)
    /\ html' = IF Strip(source) = <<>> THEN <<>>
               ELSE Strip(Html(RenderTree(Strip(source))))

CallMarkdownToHtml ==
    /\ mdFn = "none"
    /\ mdFn' = "html"
    /\ MdLocals
    /\ result' = MarkdownToHtml(source)
    /\ UNCHANGED <<mdLines, source, cleaned, raw_lines>>
    /\ UNCHANGED <<secVars, mainVars>>

CallMarkdownToHtmlList ==
    /\ mdFn = "none"
    /\ mdFn' = "html_list"
    /\ MdLocals
    /\ cleaned' = IF Strip(source) = <<>> THEN <<>> ELSE CleanedHtml(Strip(source))
    /\ result' = MarkdownToHtmlList(source)
    /\ UNCHANGED <<mdLines, source, raw_lines>>
    /\ UNCHANGED <<secVars, mainVars>>

CallMarkdownToTextList ==
    /\ mdFn = "none"
    /\ mdFn' = "text_list"
    /\ MdLocals
    /\ cleaned' = IF Strip(source) = <<>> THEN <<>> ELSE CleanedText(Strip(source))
    /\ raw_lines' = IF Strip(source) = <<>> THEN <<>> ELSE RawLines(Strip(source))
    /\ result' = MarkdownToTextList(source)
    /\ UNCHANGED <<mdLines, source>>
    /\ UNCHANGED <<secVars, mainVars>>

MdNext == CallMarkdownToHtml \/ CallMarkdownToHtmlList \/ CallMarkdownToTextList

\* ------------------------------------------------------- parse_attributes
\* One line of the attributes section: skipped when blank or without a colon,
\* else split at the first colon into a trimmed key and a trimmed value.
AttributeStep(attributes, line) ==
    LET c == Strip(line)
        i == Find(c, ":")
    IN  IF c = <<>> \/ i = 0 THEN attributes
        ELSE LET key == Strip(SubSeq(c, 1, i - 1))
                 value == Strip(SubSeq(c, i + 1, Len(c)))
             IN  [k \in (DOMAIN attributes) \cup {key} |->
                    IF k = key THEN value ELSE attributes[k]]

RECURSIVE AttributeLoop(_, _)
AttributeLoop(attributes, lines) ==
    IF lines = <<>> THEN attributes
    ELSE AttributeLoop(AttributeStep(attributes, Head(lines)), Tail(lines))

ParseAttributes(raw_text) == AttributeLoop(<<>>, SplitLines(raw_text))

\* ------------------------------------------------------- float() and int()
Digits == {"0", "1", "2", "3", "4", "5", "6", "7", "8", "9"}
DigitValue(c) ==
    CASE c = "0" -> 0 [] c = "1" -> 1 [] c = "2" -> 2 [] c = "3" -> 3
      [] c = "4" -> 4 [] c = "5" -> 5 [] c = "6" -> 6 [] c = "7" -> 7
      [] c = "8" -> 8 [] c = "9" -> 9

AllDigits(s) == \A i \in 1..Len(s) : s[i] \in Digits

\* The literal without its sign.
Unsigned(s) == IF s # <<>> /\ Head(s) \in {"+", "-"} THEN Tail(s) ELSE s

RECURSIVE DigitsValue(_)
DigitsValue(s) ==
    IF s = <<>> THEN 0
    ELSE 10 * DigitsValue(SubSeq(s, 1, Len(s) - 1)) + DigitValue(s[Len(s)])

\* int(s) succeeds: blanks around an optional sign and decimal digits.
IsInt(s) ==
    LET u == Unsigned(Strip(s)) IN u # <<>> /\ AllDigits(u)

\* int(s)
IntOf(s) ==
    LET t == Strip(s) IN
    IF Head(t) = "-" THEN 0 - DigitsValue(Unsigned(t)) ELSE DigitsValue(Unsigned(t))

\* As IsFloat, had a literal without any digit been let through.
IsFloatLenient(s) ==
    LET u == Unsigned(Strip(s))
        i == Find(u, ".")
        whole == IF i = 0 THEN u ELSE SubSeq(u, 1, i - 1)
        frac == IF i = 0 THEN <<>> ELSE SubSeq(u, i + 1, Len(u))
    IN  AllDigits(whole) /\ AllDigits(frac)

\* float(s) succeeds on a decimal literal: blanks around an optional sign and
\* digits with at most one point and at least one digit.  (The exponent,
\* inf and nan forms are not among the values the documents below hold.)
IsFloat(s) ==
    LET u == Unsigned(Strip(s))
        i == Find(u, ".")
        whole == IF i = 0 THEN u ELSE SubSeq(u, 1, i - 1)
        frac == IF i = 0 THEN <<>> ELSE SubSeq(u, i + 1, Len(u))
    IN  /\ AllDigits(whole)
        /\ AllDigits(frac)
        /\ whole \o frac # <<>>

\* Ten to the power n.
RECURSIVE Pow10(_)
Pow10(n) == IF n = 0 THEN 1 ELSE 10 * Pow10(n - 1)

\* The lowest terms of num / den.
Reduced(num, den) ==
    LET g == CHOOSE d \in 1..den :
                /\ num % d = 0 /\ den % d = 0
                /\ \A e \in (d + 1)..den : ~(num % e = 0 /\ den % e = 0)
    IN  <<num \div g, den \div g>>

\* float(s), as the fraction the literal denotes, in lowest terms.
FloatOf(s) ==
    LET t == Strip(s)
        u == Unsigned(t)
        i == Find(u, ".")
        whole == IF i = 0 THEN u ELSE SubSeq(u, 1, i - 1)
        frac == IF i = 0 THEN <<>> ELSE SubSeq(u, i + 1, Len(u))
        r == Reduced(DigitsValue(whole \o frac), Pow10(Len(frac)))
    IN  IF Head(t) = "-" THEN <<0 - r[1], r[2]>> ELSE r

\* ----------------------------------------------------------- build_payload
\* The headings of SECTION_PARSERS, each Chinese character written by its
\* pinyin: question, answer, analysis, explanation, knowledge, attributes.
TiMu == <<"ti", "mu">>
DaAn == <<"da", "an">>
FenXi == <<"fen", "xi">>
XiangJie == <<"xiang", "jie">>
ZhiShiDian == <<"zhi", "shi", "dian">>
ShuXing == <<"shu", "xing">>

required_headings == {TiMu, DaAn, FenXi, XiangJie, ZhiShiDian, ShuXing}

\* The required headings in the order sorted() gives them: by the code point
\* of the first character (U+5206, U+5C5E, U+77E5, U+7B54, U+8BE6, U+9898).
HeadingOrder == <<FenXi, ShuXing, ZhiShiDian, DaAn, XiangJie, TiMu>>

\* sorted(missing)
RECURSIVE SortedFrom(_, _)
SortedFrom(order, set) ==
    IF order = <<>> THEN <<>>
    ELSE (IF Head(order) \in set THEN <<Head(order)>> ELSE <<>>)
            \o SortedFrom(Tail(order), set)

\* As Sorted, had the message named the first missing heading only.
SortedFirstOnly(set) ==
    IF SortedFrom(HeadingOrder, set) = <<>> THEN <<>>
    ELSE <<Head(SortedFrom(HeadingOrder, set))>>

Sorted(set) == SortedFrom(HeadingOrder, set)

QuestionType == <<"question_type">>
Accuracy == <<"accuracy">>

\* A raised ValueError: what failed and what its message names.
Raise(kind, names) == [ok |-> FALSE, error |-> kind, names |-> names, payload |-> <<>>]
Return(payload) == [ok |-> TRUE, error |-> "", names |-> <<>>, payload |-> payload]

\* As QuestionId, had only the first digit of the stem been read.
QuestionIdFirstDigit(name) == DigitValue(Head(Unsigned(Strip(name))))

\* question_id = int(md_path.stem)
QuestionId(name) == IntOf(name)

\* build_payload(md_path), the file given by its lines and the stem of its name.
BuildPayload(lines, name) ==
    LET secs == ParseSections(lines)
        missing == required_headings \ DOMAIN secs
        attributes == ParseAttributes(secs[ShuXing])
        question_html == MarkdownToHtml(secs[TiMu])
        answer_text_list == MarkdownToTextList(secs[DaAn])
    IN  IF missing # {} THEN Raise("missing sections", Sorted(missing))
        ELSE IF QuestionType \notin DOMAIN attributes
        THEN Raise("missing attribute", <<QuestionType>>)
        ELSE IF Accuracy \notin DOMAIN attributes
        THEN Raise("missing attribute", <<Accuracy>>)
        ELSE IF ~IsFloat(attributes[Accuracy])
        THEN Raise("accuracy must be a float", <<>>)
        ELSE IF question_html = <<>>
        THEN Raise("question empty", <<>>)
        ELSE IF answer_text_list = <<>>
        THEN Raise("answer empty", <<>>)
        ELSE IF ~IsInt(name)
        THEN Raise("invalid literal for int", <<>>)
        ELSE Return([question_id |-> QuestionId(name),
                     question_type |-> attributes[QuestionType],
                     accuracy |-> FloatOf(attributes[Accuracy]),
                     question |-> question_html,
                     answer |-> answer_text_list,
                     analysis |-> MarkdownToHtmlList(secs[FenXi]),
                     explanation |-> MarkdownToHtmlList(secs[XiangJie]),
                     knowledge |-> MarkdownToTextList(secs[ZhiShiDian])])

\* ---------------------------------------------- parse_sections, step by step
H(title) == <<"#", SP>> \o title

\* Lines a document is drawn from: headings (plain, indented, deeper, with
\* trailing blanks), text that only looks like a heading, body text, blanks.
SecLineSet ==
    { H(<<"Q">>),
      <<SP, "#", "#", SP, SP, "Q", SP>>,
      H(<<"A">>),
      <<"#", "Q">>,
      <<"#", "#", "#", "#", "#", "#", "#", SP, "Q">>,
      <<"x">>,
      <<SP, "y", SP>>,
      <<>> }

SecInit ==
    /\ secLines \in SeqUpTo(SecLineSet, MaxSecLines)
    /\ secIdx = 0
    /\ sections = SectionStart.sections
    /\ current_heading = SectionStart.current_heading
    /\ buffer = SectionStart.buffer
    /\ secPc = "loop"

SecState == [sections |-> sections, buffer |-> buffer,
             current_heading |-> current_heading]

SecAdvance(line) ==
    LET st == SectionStep(SecState, line) IN
    /\ sections' = st.sections
    /\ buffer' = st.buffer
    /\ current_heading' = st.current_heading
    /\ secIdx' = secIdx + 1
    /\ UNCHANGED <<secLines, secPc>>

\* The loop body on a heading line.
ReadHeadingLine ==
    /\ secPc = "loop"
    /\ secIdx < Len(secLines)
    /\ HeadingMatches(secLines[secIdx + 1])
    /\ SecAdvance(secLines[secIdx + 1])
    /\ UNCHANGED <<mdVars, mainVars>>

\* The loop body on any other line.
ReadBodyLine ==
    /\ secPc = "loop"
    /\ secIdx < Len(secLines)
    /\ ~HeadingMatches(secLines[secIdx + 1])
    /\ SecAdvance(secLines[secIdx + 1])
    /\ UNCHANGED <<mdVars, mainVars>>

\* End of the file: the open buffer is flushed and the dict returned.
ReturnSections ==
    /\ secPc = "loop"
    /\ secIdx = Len(secLines)
    /\ sections' = SectionFinish(SecState)
    /\ secPc' = "done"
    /\ UNCHANGED <<secLines, secIdx, current_heading, buffer>>
    /\ UNCHANGED <<mdVars, mainVars>>

SecNext == ReadHeadingLine \/ ReadBodyLine \/ ReturnSections

\* ---------------------------------------------------------- insert_question
\* NULL, as a timestamp: earlier than every reading of the clock.
NullTime == 0

\* What the column default stores in updated_at on a plain insert.
ColumnDefault(default, t) == IF default = "now" THEN t ELSE NullTime

Row(p, t) ==
    [question_id |-> p.question_id,
     question_type |-> p.question_type,
     accuracy |-> p.accuracy,
     question |-> p.question,
     answer |-> p.answer,
     analysis |-> p.analysis,
     explanation |-> p.explanation,
     knowledge |-> p.knowledge,
     updated_at |-> t]

\* As Upsert, had the SET list left updated_at out.
UpsertKeepingTimestamp(tbl, p, t, default) ==
    IF \E r \in tbl : r.question_id = p.question_id
    THEN {r \in tbl : r.question_id # p.question_id}
            \cup {Row(p, r.updated_at) : r \in {x \in tbl : x.question_id = p.question_id}}
    ELSE tbl \cup {Row(p, ColumnDefault(default, t))}

\* INSERT ... ON CONFLICT (question_id) DO UPDATE SET ..., updated_at = NOW()
\* at time t: the row with the key is replaced, or a new row is added.
Upsert(tbl, p, t, default) ==
    IF \E r \in tbl : r.question_id = p.question_id
    THEN {r \in tbl : r.question_id # p.question_id} \cup {Row(p, t)}
    ELSE tbl \cup {Row(p, ColumnDefault(default, t))}

\* The connection when "with psycopg2.connect(dsn) as connection" is left:
\* psycopg2 ends the transaction (commit, or rollback on an exception) and
\* leaves the connection as it is.
ConnectionAfterWith(c) == c

\* -------------------------------------------------------------------- main
\* As AfterBuild, had main caught the ValueError and gone on.
AfterBuildSwallowingError(res) == "insert_question"

\* Where main goes after build_payload: on to insert_question, or out with
\* the ValueError.
AfterBuild(res) == IF res.ok THEN "insert_question" ELSE "raised ValueError"

\* The files the program is run on.  A file holds, for each heading it has,
\* the heading line and the lines of its body.
AttrLine(key, value) == key \o <<":", SP>> \o value

TypeN == AttrLine(QuestionType, <<"n">>)
TypeM == AttrLine(QuestionType, <<"m">>)
Acc09 == AttrLine(Accuracy, <<"0", ".", "9">>)
Acc90 == <<SP>> \o Accuracy \o <<SP, ":", "0", ".", "9", "0", SP>>
AccX == AttrLine(Accuracy, <<"x">>)
AccDot == AttrLine(Accuracy, <<".">>)

TiMuBodies == { <<<<"Q">>>>, <<>> }
DaAnBodies == { <<<<"4">>>>, <<<<"A">>, <<"B">>>> }
ShuXingBodies ==
    { <<TypeN, Acc09>>,
      <<TypeM, <<"n", "o", "t", "e">>, <<>>, Acc90>>,
      <<>>,
      <<TypeN>>,
      <<Acc09>>,
      <<TypeN, AccX>>,
      <<AccX>>,
      <<TypeN, Acc09, AccDot>> }

Section(title, body) == <<H(title)>> \o body

\* A file with all six headings.
FullDoc(q, a, fx, xj, zsd, sx) ==
    Section(TiMu, q) \o Section(DaAn, a) \o Section(FenXi, fx)
        \o Section(XiangJie, xj) \o Section(ZhiShiDian, zsd) \o Section(ShuXing, sx)

\* A file with the headings of a set only, each with a body that is valid.
PartialDoc(present) ==
    (IF TiMu \in present THEN Section(TiMu, <<<<"Q">>>>) ELSE <<>>)
    \o (IF DaAn \in present THEN Section(DaAn, <<<<"4">>>>) ELSE <<>>)
    \o (IF FenXi \in present THEN Section(FenXi, <<>>) ELSE <<>>)
    \o (IF XiangJie \in present THEN Section(XiangJie, <<>>) ELSE <<>>)
    \o (IF ZhiShiDian \in present THEN Section(ZhiShiDian, <<>>) ELSE <<>>)
    \o (IF ShuXing \in present THEN Section(ShuXing, <<TypeN, Acc09>>) ELSE <<>>)

\* Files with every heading, with one or two missing, with none at all; files
\* with every heading and bodies of every kind.
Docs ==
    {PartialDoc(present) :
        present \in {P \in SUBSET required_headings :
                        Cardinality(required_headings \ P) <= 2 \/ P = {}}}
    \cup {FullDoc(q, a, <<>>, <<>>, <<>>, sx) :
            q \in TiMuBodies, a \in DaAnBodies, sx \in ShuXingBodies}
    \cup { FullDoc(<<RefLine>>, <<<<"4">>>>, <<>>, <<>>, <<>>, <<TypeN, Acc09>>),
           FullDoc(<<<<"Q">>>>, <<>>, <<>>, <<>>, <<>>, <<TypeN, Acc09>>),
           FullDoc(<<<<"Q">>>>, <<RefLine>>, <<>>, <<>>, <<>>, <<TypeN, Acc09>>),
           FullDoc(<<<<"Q">>>>, <<<<"4">>>>, <<<<"-", SP, "A">>>>, <<<<"A">>, <<>>, <<"B">>>>,
                   <<<<"A">>>>, <<TypeN, Acc09>>),
           FullDoc(<<<<"Q">>>>, <<<<"4">>>>, <<RefLine>>, <<>>, <<>>, <<TypeN, Acc09>>) }

\* File name stems: two that int() reads and one that it refuses.
Stems == { <<"4", "2">>, <<"0", "7">>, <<"4", "x">> }

NoBuild == Raise("not built", <<>>)

\* A row stored before the first invocation modelled.
SeedRow ==
    Row([question_id |-> 7,
         question_type |-> <<"s">>,
         accuracy |-> <<1, 2>>,
         question |-> <<"<p>", "S", "</p>">>,
         answer |-> <<<<"s">>>>,
         analysis |-> <<>>,
         explanation |-> <<>>,
         knowledge |-> <<>>], 1)

MainInit ==
    /\ pc = "shell"
    /\ doc = <<>>
    /\ stem = <<>>
    /\ dsn = "None"
    /\ built = NoBuild
    /\ conn = "none"
    /\ statements = 0
    /\ table \in {{}, {SeedRow}}
    /\ pending = table
    /\ now = 1
    /\ updatedAtDefault \in {"null", "now"}
    /\ runs = 0
    /\ tableAtStart = table
    /\ opened = 0
    /\ insertCalled = FALSE

Exited == {"shell", "exit 0", "exit 1", "exit 2"}

\* The program is started on a path, with or without a connection string.
StartMain ==
    /\ pc \in Exited
    /\ runs < MaxRuns
    /\ runs' = runs + 1
    /\ doc' = <<>>
    /\ stem' \in Stems
    /\ dsn' \in {"dsn", "None"}
    /\ pc' = "parsed args"
    /\ built' = NoBuild
    /\ conn' = "none"
    /\ statements' = 0
    /\ pending' = table
    /\ tableAtStart' = table
    /\ opened' = 0
    /\ insertCalled' = FALSE
    /\ UNCHANGED <<table, now, updatedAtDefault>>
    /\ UNCHANGED <<secVars, mdVars>>

\* if args.dsn is None: parser.error(...)
UsageError ==
    /\ pc = "parsed args"
    /\ dsn = "None"
    /\ pc' = "exit 2"
    /\ UNCHANGED <<doc, stem, dsn, built, conn, statements, pending, table, now,
                   updatedAtDefault, runs, tableAtStart, opened, insertCalled>>
    /\ UNCHANGED <<secVars, mdVars>>

\* payload = build_payload(args.md_path), which reads the file.
CallBuildPayload ==
    /\ pc = "parsed args"
    /\ dsn # "None"
    /\ doc' \in Docs
    /\ built' = BuildPayload(doc', stem)
    /\ pc' = AfterBuild(BuildPayload(doc', stem))
    /\ UNCHANGED <<stem, dsn, conn, statements, pending, table, now,
                   updatedAtDefault, runs, tableAtStart, opened, insertCalled>>
    /\ UNCHANGED <<secVars, mdVars>>

\* insert_question is entered and psycopg2.connect(dsn) returns a connection;
\* the clock has moved on since any earlier transaction.
Connect ==
    /\ pc = "insert_question"
    /\ insertCalled' = TRUE
    /\ conn' = "open"
    /\ opened' = opened + 1
    /\ now' = now + 1
    /\ pc' = "connected"
    /\ UNCHANGED <<doc, stem, dsn, built, statements, pending, table,
                   updatedAtDefault, runs, tableAtStart>>
    /\ UNCHANGED <<secVars, mdVars>>

\* insert_question is entered and psycopg2.connect(dsn) raises.
ConnectFails ==
    /\ pc = "insert_question"
    /\ insertCalled' = TRUE
    /\ pc' = "raised StorageError"
    /\ UNCHANGED <<doc, stem, dsn, built, conn, statements, pending, table, now,
                   updatedAtDefault, runs, tableAtStart, opened>>
    /\ UNCHANGED <<secVars, mdVars>>

\* cursor.execute(sql, payload) in a transaction that starts now.
Execute ==
    /\ pc = "connected"
    /\ statements' = statements + 1
    /\ pending' = Upsert(table, built.payload, now, updatedAtDefault)
    /\ pc' = "executed"
    /\ UNCHANGED <<doc, stem, dsn, built, conn, table, now, updatedAtDefault,
                   runs, tableAtStart, opened, insertCalled>>
    /\ UNCHANGED <<secVars, mdVars>>

\* cursor.execute(sql, payload) raises.
ExecuteFails ==
    /\ pc = "connected"
    /\ statements' = statements + 1
    /\ pc' = "execute raised"
    /\ UNCHANGED <<doc, stem, dsn, built, conn, pending, table, now,
                   updatedAtDefault, runs, tableAtStart, opened, insertCalled>>
    /\ UNCHANGED <<secVars, mdVars>>

\* Both with blocks are left normally: the cursor is closed, the transaction
\* committed.
LeaveWith ==
    /\ pc = "executed"
    /\ table' = pending
    /\ conn' = ConnectionAfterWith(conn)
    /\ pc' = "insert_question end"
    /\ UNCHANGED <<doc, stem, dsn, built, statements, pending, now,
                   updatedAtDefault, runs, tableAtStart, opened, insertCalled>>
    /\ UNCHANGED <<secVars, mdVars>>

\* Both with blocks are left by the exception: the cursor is closed, the
\* transaction rolled back, the exception goes on.
LeaveWithRaising ==
    /\ pc = "execute raised"
    /\ pending' = table
    /\ conn' = ConnectionAfterWith(conn)
    /\ pc' = "raised StorageError"
    /\ UNCHANGED <<doc, stem, dsn, built, statements, table, now,
                   updatedAtDefault, runs, tableAtStart, opened, insertCalled>>
    /\ UNCHANGED <<secVars, mdVars>>

\* insert_question returns; its local connection object is released, and
\* whether that finalizes (closes) it at once is up to the interpreter.
ReturnFromInsert ==
    /\ pc = "insert_question end"
    /\ conn' \in {conn, "closed"}
    /\ pc' = "print"
    /\ UNCHANGED <<doc, stem, dsn, built, statements, pending, table, now,
                   updatedAtDefault, runs, tableAtStart, opened, insertCalled>>
    /\ UNCHANGED <<secVars, mdVars>>

\* print(...) and the end of main: the process exits, which closes whatever
\* it still holds.
ExitOk ==
    /\ pc = "print"
    /\ conn' = IF conn = "open" THEN "closed" ELSE conn
    /\ pc' = "exit 0"
    /\ UNCHANGED <<doc, stem, dsn, built, statements, pending, table, now,
                   updatedAtDefault, runs, tableAtStart, opened, insertCalled>>
    /\ UNCHANGED <<secVars, mdVars>>

\* An exception leaves main: traceback, exit status 1.
ExitRaised ==
    /\ pc \in {"raised ValueError", "raised StorageError"}
    /\ conn' = IF conn = "open" THEN "closed" ELSE conn
    /\ pc' = "exit 1"
    /\ UNCHANGED <<doc, stem, dsn, built, statements, pending, table, now,
                   updatedAtDefault, runs, tableAtStart, opened, insertCalled>>
    /\ UNCHANGED <<secVars, mdVars>>

MainNext ==
    \/ StartMain
    \/ UsageError
    \/ CallBuildPayload
    \/ Connect
    \/ ConnectFails
    \/ Execute
    \/ ExecuteFails
    \/ LeaveWith
    \/ LeaveWithRaising
    \/ ReturnFromInsert
    \/ ExitOk
    \/ ExitRaised

\* ---------------------------------------------------------- specifications
\* The parts of the state a specification does not use.
SecIdle ==
    /\ secLines = <<>>
    /\ secIdx = 0
    /\ sections = <<>>
    /\ current_heading = None
    /\ buffer = <<>>
    /\ secPc = "idle"

MdIdle ==
    /\ mdLines = <<>>
    /\ source = <<>>
    /\ mdFn = "idle"
    /\ text = <<>>
    /\ html = <<>>
    /\ cleaned = <<>>
    /\ raw_lines = <<>>
    /\ result = <<>>

MainIdle ==
    /\ pc = "idle"
    /\ doc = <<>>
    /\ stem = <<>>
    /\ dsn = "None"
    /\ built = NoBuild
    /\ conn = "none"
    /\ statements = 0
    /\ pending = {}
    /\ table = {}
    /\ now = 1
    /\ updatedAtDefault = "null"
    /\ runs = 0
    /\ tableAtStart = {}
    /\ opened = 0
    /\ insertCalled = FALSE

Init == MainInit /\ SecIdle /\ MdIdle
Next == MainNext
\* The program, run up to MaxRuns times on files of Docs.
Spec == Init /\ [][Next]_vars

SectionsInit == SecInit /\ MdIdle /\ MainIdle
SectionsNext == SecNext
\* parse_sections on every file of at most MaxSecLines lines.
SpecSections == SectionsInit /\ [][SectionsNext]_vars

RenderInit == MdInit /\ SecIdle /\ MainIdle
RenderNext == MdNext
\* The three renderers on every source of at most MaxMdLines lines.
SpecRender == RenderInit /\ [][RenderNext]_vars

\* ------------------------------------------------------------------ claims
\* What the claims say, stated from the file and the source text themselves.

\* The trimmed titles of the heading lines of the file read.
DocTitles ==
    {HeadingTitle(doc[i]) : i \in {j \in 1..Len(doc) : HeadingMatches(doc[j])}}

\* build_payload has run in this invocation.
Built == built # NoBuild

\* The sections and attributes of the file read.
DocSections == ParseSections(doc)
DocAttributes == ParseAttributes(DocSections[ShuXing])

\* The accuracy values that are numbers, among those the files hold.
NumericLiterals == { <<"0", ".", "9">>, <<"0", ".", "9", "0">> }

\* The integer each stem denotes, for the stems that denote one.
StemValue(s) == CASE s = <<"4", "2">> -> 42 [] s = <<"0", "7">> -> 7
IntegerStems == { <<"4", "2">>, <<"0", "7">> }

\* C1: whenever build_payload has failed in an invocation, that invocation
\* has not called insert_question, has opened no connection, and the table
\* is as it was when the invocation started -- up to its exit.
C1_ValidationFailsBeforeStorage ==
    (Built /\ ~built.ok) =>
        /\ ~insertCalled
        /\ opened = 0
        /\ conn = "none"
        /\ statements = 0
        /\ table = tableAtStart

\* An invocation that exited on a validation error, over a table with rows.
C1_Witness ==
    /\ pc = "exit 1"
    /\ Built
    /\ built.error = "accuracy must be a float"
    /\ Cardinality(table) = 2

\* C2: for a file lacking at least one required heading, build_payload fails
\* with the missing-sections error, and the message names every missing
\* heading, once, and no heading that is present.
C2_NamesExactlyMissing ==
    (Built /\ required_headings \ DocTitles # {}) =>
        /\ ~built.ok
        /\ built.error = "missing sections"
        /\ {built.names[i] : i \in 1..Len(built.names)}
             = required_headings \ DocTitles
        /\ Len(built.names) = Cardinality(required_headings \ DocTitles)

\* A file without its answer and attributes headings, and the error names both.
C2_Witness ==
    /\ Built
    /\ required_headings \ DocTitles = {DaAn, ShuXing}
    /\ built.names = <<ShuXing, DaAn>>

\* C3, as claimed: for a file with all six headings and non-empty Question
\* and Answer sections, build_payload returns a record whose question_id is
\* the integer value of the stem.
C3_AsClaimed ==
    (/\ Built
     /\ required_headings \subseteq DocTitles
     /\ DocSections[TiMu] # <<>>
     /\ DocSections[DaAn] # <<>>) =>
        /\ built.ok
        /\ built.payload.question_id = StemValue(stem)

\* C3, amended: for a file with all six headings, a question_type attribute,
\* an accuracy attribute that is a number, a Question that renders to
\* non-empty HTML, an Answer that renders to at least one fragment, and a stem
\* that is an integer literal, build_payload returns a record whose
\* question_id is the integer value of the stem.
C3_QuestionIdIsStemValue ==
    (/\ Built
     /\ required_headings \subseteq DocTitles
     /\ QuestionType \in DOMAIN DocAttributes
     /\ Accuracy \in DOMAIN DocAttributes
     /\ DocAttributes[Accuracy] \in NumericLiterals
     /\ MarkdownToHtml(DocSections[TiMu]) # <<>>
     /\ MarkdownToTextList(DocSections[DaAn]) # <<>>
     /\ stem \in IntegerStems) =>
        /\ built.ok
        /\ built.payload.question_id = StemValue(stem)

\* The file 42.md, built into a record with question_id 42.
C3_Witness ==
    /\ Built
    /\ built.ok
    /\ stem = <<"4", "2">>
    /\ built.payload.question_id = 42
    /\ built.payload.answer = <<<<"A">>, <<"B">>>>

\* C4: for a file with all six headings whose attributes have no accuracy, or
\* an accuracy that is not a number, build_payload fails with a validation
\* error (the missing attribute, or the accuracy) and returns no record,
\* whatever the other sections hold.
C4_BadAccuracyFails ==
    (/\ Built
     /\ required_headings \subseteq DocTitles
     /\ \/ Accuracy \notin DOMAIN DocAttributes
        \/ DocAttributes[Accuracy] \notin NumericLiterals) =>
        /\ ~built.ok
        /\ built.error \in {"missing attribute", "accuracy must be a float"}
        /\ pc \in {"raised ValueError", "exit 1"}

\* A file whose last accuracy line holds "." and whose other sections are
\* valid: refused for its accuracy.
C4_Witness ==
    /\ Built
    /\ required_headings \subseteq DocTitles
    /\ Accuracy \in DOMAIN DocAttributes
    /\ DocAttributes[Accuracy] = <<".">>
    /\ DocSections[DaAn] = <<"A", NL, "B">>
    /\ built.error = "accuracy must be a float"

\* C5, as claimed: once the with block of insert_question is left, on the
\* success path or on the error path, the connection it opened has run
\* exactly one statement and is closed.
C5_ClosedAfterWith ==
    (/\ pc \in {"insert_question end", "print", "raised StorageError", "exit 0"}
     /\ opened > 0) =>
        /\ statements = 1
        /\ conn = "closed"

\* C6: when an invocation has upserted a record whose question_id was
\* already in the table, the table holds exactly one row with that key, its
\* other columns are those of the record, its updated_at is later than the
\* one stored before, and the rows with other keys are as they were.
C6_UpsertReplacesRow ==
    (/\ pc \in {"insert_question end", "print", "exit 0"}
     /\ \E o \in tableAtStart : o.question_id = built.payload.question_id) =>
        LET p == built.payload
            mine == {r \in table : r.question_id = p.question_id}
        IN  /\ Cardinality(mine) = 1
            /\ \A r \in mine :
                /\ r.question_type = p.question_type
                /\ r.accuracy = p.accuracy
                /\ r.question = p.question
                /\ r.answer = p.answer
                /\ r.analysis = p.analysis
                /\ r.explanation = p.explanation
                /\ r.knowledge = p.knowledge
                /\ \A o \in tableAtStart :
                      o.question_id = p.question_id => r.updated_at > o.updated_at
            /\ {r \in table : r.question_id # p.question_id}
                 = {r \in tableAtStart : r.question_id # p.question_id}

\* The same key upserted by two invocations with different answers, next to
\* a row with another key.
C6_Witness ==
    /\ pc = "exit 0"
    /\ runs = 2
    /\ built.payload.question_id = 42
    /\ built.payload.answer = <<<<"A">>, <<"B">>>>
    /\ \E o \in tableAtStart :
          o.question_id = 42 /\ o.answer = <<<<"4">>>> /\ o.updated_at > NullTime
    /\ SeedRow \in table
    /\ Cardinality(table) = 2

\* The trimmed non-blank lines of the source, in source order.
TrimmedSourceLines ==
    SelectSeq([i \in 1..Len(mdLines) |-> Strip(mdLines[i])], LAMBDA l : l # <<>>)

\* C7: when markdown_to_text_list has rendered at least one fragment, it
\* returns the trimmed non-blank source lines if there is exactly one
\* fragment and more than one such line, and the fragments otherwise.
C7_Reconciliation ==
    (mdFn = "text_list" /\ cleaned # <<>>) =>
        result = IF Len(cleaned) = 1 /\ Len(TrimmedSourceLines) > 1
                 THEN TrimmedSourceLines
                 ELSE cleaned

\* "A\nB": one paragraph rendered, two lines returned.
C7_Witness ==
    /\ mdFn = "text_list"
    /\ source = <<"A", NL, "B">>
    /\ cleaned = <<<<"A", NL, "B">>>>
    /\ result = <<<<"A">>, <<"B">>>>

\* C8, as claimed: when markdown_to_text_list has rendered no fragment and
\* the source has raw lines, one or more, it returns the raw lines.
C8_AsClaimed ==
    (/\ mdFn = "text_list"
     /\ cleaned = <<>>
     /\ Len(TrimmedSourceLines) >= 1) =>
        result = TrimmedSourceLines

\* C8, amended: when markdown_to_text_list has rendered no fragment, it
\* returns the raw lines if the source has more than one; for a source of
\* exactly one non-blank line it returns the plain text of the whole HTML as
\* the only fragment, or nothing if that text is empty.
C8_RawLinesOnlyWhenSeveral ==
    (/\ mdFn = "text_list"
     /\ cleaned = <<>>
     /\ Len(TrimmedSourceLines) >= 1) =>
        result = IF Len(TrimmedSourceLines) > 1 THEN TrimmedSourceLines
                 ELSE IF GetText(RenderTree(text)) # <<>>
                 THEN <<GetText(RenderTree(text))>>
                 ELSE <<>>

\* A source of one line, a link reference definition: nothing is rendered
\* and nothing returned.
C8_Witness ==
    /\ mdFn = "text_list"
    /\ mdLines = <<<<>>, RefLine>>
    /\ cleaned = <<>>
    /\ raw_lines = <<RefLine>>
    /\ result = <<>>

\* C9, as claimed: markdown_to_html_list returns no empty or blank fragment;
\* the whole HTML is returned as the only fragment only when it is not empty,
\* and a source that is not blank but renders to empty HTML gives no fragment.
C9_NoEmptyFragment ==
    (mdFn = "html_list") =>
        /\ \A i \in 1..Len(result) : Strip(result[i]) # <<>>
        /\ (text # <<>> /\ html = <<>>) => result = <<>>

\* Indices of the heading lines of the file.
HeadingIdx == {i \in 1..Len(secLines) : HeadingMatches(secLines[i])}

\* The last heading line with title t.
LastHeading(t) ==
    CHOOSE i \in HeadingIdx :
        /\ HeadingTitle(secLines[i]) = t
        /\ \A j \in HeadingIdx : HeadingTitle(secLines[j]) = t => j <= i

\* The first heading line after line i, or the line after the last.
NextHeading(i) ==
    IF \E j \in HeadingIdx : j > i
    THEN CHOOSE j \in HeadingIdx : j > i /\ \A k \in HeadingIdx : k > i => j <= k
    ELSE Len(secLines) + 1

\* C10: when parse_sections returns, the dict has exactly the trimmed titles of
\* the heading lines as keys, and each title maps to the trimmed join of the
\* lines strictly between the last heading of that title and the next heading
\* (or the end of the file); so lines before the first heading are in no
\* section and every line belongs to the nearest preceding heading only.
C10_SectionsAreLastHeadingBodies ==
    secPc = "done" =>
        /\ DOMAIN sections = {HeadingTitle(secLines[i]) : i \in HeadingIdx}
        /\ \A t \in DOMAIN sections :
              sections[t] =
                Strip(Join(<<NL>>,
                    SubSeq(secLines, LastHeading(t) + 1,
                           NextHeading(LastHeading(t)) - 1)))

\* A file with text before the first heading, a repeated title and a body
\* under its last occurrence.
C10_Witness ==
    /\ secPc = "done"
    /\ secLines = << <<"x">>, H(<<"Q">>), <<SP, "#", "#", SP, SP, "Q", SP>>, <<SP, "y", SP>> >>
    /\ sections[<<"Q">>] = <<"y">>

====
